---- MODULE Spec2Model ----
(***************************************************************************)
(* Model of the FPL analysis pipeline of src/analysis.js:                  *)
(*   TeamDefenseAnalyzer   (analyzeTeamDefense, processPlayerData,         *)
(*                          calculateResults)                              *)
(*   PlayerFixtureAnalyzer (getVulnerabilityScore, getCurrentGameweek,     *)
(*                          getPlayerUpcomingFixtures, analyzeTimeHorizon) *)
(*                                                                         *)
(* Number representation.  JavaScript numbers are IEEE doubles; the model  *)
(* keeps them as exact integers in a fixed unit:                           *)
(*   - avgPointsAllowedPerGame, totalVulnerabilityScore: the output of     *)
(*     toFixed(2), an integer number of hundredths;                        *)
(*   - vulnerabilityScore and sums of it: thousandths;                     *)
(*   - form: tenths (the API sends one decimal, e.g. "3.5").               *)
(***************************************************************************)
EXTENDS Integers, Sequences, FiniteSets, Bags, TLC

\* ---------------------------------------------------------------- bounds
NumTeams == 3        \* teams in the bootstrap data, ids 1..NumTeams
MaxHistory == 2      \* longest gameweek history a fetch returns
MaxCalls == 2        \* processPlayerData calls in one run

\* ------------------------------------------------------- shared constants
Null == -1           \* JSON null / a missing field
Positions == 1..4
positionMapping == <<"goalkeepers", "defenders", "midfielders", "forwards">>
PositionNames == {positionMapping[p] : p \in Positions}

TeamIds == 1..NumTeams
AllTeamNames == <<"Arsenal", "Brentford", "Chelsea", "Everton", "Fulham">>

VARIABLES
    teams,             \* bootstrapData.teams: sequence of [id, name]
    allPlayersData,    \* bootstrapData.elements: sequence of player records
    teamDefenseStats,  \* [position -> [teamId -> [pointsAllowed, games]]]
    processed,         \* history: bag of <<position, record>> that went through processPlayerData
    defenseResults,    \* result of calculateResults / PlayerFixtureAnalyzer.defenseResults
    fixtures,          \* PlayerFixtureAnalyzer.fixtures
    positions,         \* result of the last analyzeTimeHorizon
    pc,                \* stage of the run
    calls,             \* number of processPlayerData calls made
    ret,               \* the last call and what it returned
    run                \* analyzeTeamDefense: loop index, fetches, counter, returns

vars == <<teams, allPlayersData, teamDefenseStats, processed, defenseResults,
          fixtures, positions, pc, calls, ret, run>>

\* ------------------------------------------------------------- utilities
RECURSIVE SumSeq(_)
SumSeq(s) == IF s = <<>> THEN 0 ELSE Head(s) + SumSeq(Tail(s))

SeqsUpTo(S, n) == UNION {[1..k -> S] : k \in 0..n}

Abs(x) == IF x < 0 THEN -x ELSE x
Min2(a, b) == IF a < b THEN a ELSE b
Max2(a, b) == IF a > b THEN a ELSE b

\* Array.prototype.find over the indices whose element passes the test:
\* the first such index, 0 when there is none (find returns undefined)
FirstIndex(passing) ==
    IF passing = {} THEN 0 ELSE CHOOSE i \in passing : \A j \in passing : i <= j

\* Array.prototype.filter: the subsequence of s at the indices in keep
RECURSIVE FilterIdx(_, _, _)
FilterIdx(s, keep, i) ==
    IF i > Len(s) THEN <<>>
    ELSE (IF i \in keep THEN <<s[i]>> ELSE <<>>) \o FilterIdx(s, keep, i + 1)

Filter(s, keep) == FilterIdx(s, keep, 1)

\* Array.prototype.sort with a consistent comparator (ES2019: stable).
\* before holds the index pairs <<i, j>> with compare(s[i], s[j]) < 0;
\* elements that compare equal keep their input order.  The element at
\* input index i lands at position
\* 1 + #{j : s[j] before s[i]} + #{j < i : s[j] ties with s[i]}.
StableSort(s, before) ==
    LET rank(i) == 1 + Cardinality({j \in 1..Len(s) : <<j, i>> \in before})
                     + Cardinality({j \in 1..(i - 1) :
                                      <<j, i>> \notin before /\ <<i, j>> \notin before})
    IN <<>> \o [k \in 1..Len(s) |-> s[CHOOSE i \in 1..Len(s) : rank(i) = k]]

\* Number.prototype.toFixed(2) of the quotient num/den (den > 0), in
\* hundredths: the nearest hundredth, a tie going away from zero.  A tie
\* needs 200*num/den to be an odd integer, so den is a multiple of 8.
ToFixed2Quot(num, den) ==
    LET mag == (200 * Abs(num) + den) \div (2 * den)
    IN IF num < 0 THEN -mag ELSE mag

\* ------------------------------------------------- TeamDefenseAnalyzer
\* gameweek records: the opponent id is 0 (missing), a team id, or an id
\* without a cell; a record with minutes = 0 carries 0 points
Points == {-1, 6}
HistoryRecords ==
    [opponent_team : 0..(NumTeams + 1), minutes : {90}, total_points : Points]
        \cup [opponent_team : 0..(NumTeams + 1), minutes : {0}, total_points : {0}]
Histories == SeqsUpTo(HistoryRecords, MaxHistory)

\* no analyzeTeamDefense call made
NoRun == [i |-> 0, status |-> <<>>, responses |-> <<>>, processedPlayers |-> 0,
          returned |-> <<>>]

ZeroStats == [p \in Positions |-> [t \in TeamIds |-> [pointsAllowed |-> 0, games |-> 0]]]

TeamName(t) == teams[FirstIndex({i \in 1..Len(teams) : teams[i].id = t})].name

\* mutant of ApplyRecord: the minutes > 0 test is dropped
ApplyRecord_AnyMinutes(stats, pos, gw) ==
    IF gw.opponent_team # 0 /\ gw.opponent_team \in DOMAIN stats[pos]
    THEN [stats EXCEPT ![pos][gw.opponent_team] =
             [pointsAllowed |-> @.pointsAllowed + gw.total_points,
              games |-> @.games + 1]]
    ELSE stats

\* mutant of ApplyRecord: the cell is assigned instead of added to
ApplyRecord_Overwrite(stats, pos, gw) ==
    IF gw.minutes > 0 /\ gw.opponent_team # 0 /\ gw.opponent_team \in DOMAIN stats[pos]
    THEN [stats EXCEPT ![pos][gw.opponent_team] =
             [pointsAllowed |-> gw.total_points, games |-> 1]]
    ELSE stats

\* one iteration of the forEach over playerData.history
ApplyRecord(stats, pos, gw) ==
    IF gw.minutes > 0 /\ gw.opponent_team # 0 /\ gw.opponent_team \in DOMAIN stats[pos]
    THEN [stats EXCEPT ![pos][gw.opponent_team] =
             [pointsAllowed |-> @.pointsAllowed + gw.total_points,
              games |-> @.games + 1]]
    ELSE stats

RECURSIVE ApplyHistory(_, _, _)
ApplyHistory(stats, pos, h) ==
    IF h = <<>> THEN stats
    ELSE ApplyHistory(ApplyRecord(stats, pos, Head(h)), pos, Tail(h))

HistoryBag(pos, h) ==
    LET elems == {<<pos, h[i]>> : i \in 1..Len(h)}
    IN [e \in elems |-> Cardinality({i \in 1..Len(h) : <<pos, h[i]>> = e})]

\* what getPlayerData resolves with: a response without a history field, or
\* one with a history of up to MaxHistory records
PlayerDataResponses ==
    {[hasHistory |-> FALSE, history |-> <<>>]}
        \cup {[hasHistory |-> TRUE, history |-> h] : h \in Histories}

\* processPlayerData(playerId) when getPlayerData resolves with playerData
processPlayerData(playerId, playerData) ==
    /\ pc = "aggregate"
    /\ calls < MaxCalls
    /\ calls' = calls + 1
    /\ LET playerInfo == FirstIndex({i \in 1..Len(allPlayersData) :
                                         allPlayersData[i].id = playerId})
           playerPosition == allPlayersData[playerInfo].element_type
       IN IF playerInfo = 0
          THEN UNCHANGED <<teamDefenseStats, processed>>
          ELSE IF ~(playerData.hasHistory /\ Len(playerData.history) > 0)
          THEN UNCHANGED <<teamDefenseStats, processed>>
          ELSE /\ teamDefenseStats' =
                      ApplyHistory(teamDefenseStats, playerPosition, playerData.history)
               /\ processed' = processed (+) HistoryBag(playerPosition, playerData.history)
    /\ ret' = [op |-> "processPlayerData", arg |-> Null, val |-> "resolved"]
    /\ UNCHANGED <<run, teams, allPlayersData, defenseResults, fixtures, positions, pc>>

\* processPlayerData(playerId) when getPlayerData rejects: the await throws
\* before any cell is touched
processPlayerDataFails(playerId) ==
    /\ pc = "aggregate"
    /\ calls < MaxCalls
    /\ calls' = calls + 1
    /\ FirstIndex({i \in 1..Len(allPlayersData) : allPlayersData[i].id = playerId}) # 0
    /\ ret' = [op |-> "processPlayerData", arg |-> Null, val |-> "rejected"]
    /\ UNCHANGED <<run, teams, allPlayersData, teamDefenseStats, processed,
                   defenseResults, fixtures, positions, pc>>

\* mutant of RankTeams: the filter tests pointsAllowed instead of games
RankTeams_FilterOnPoints(row) ==
    LET ids == [i \in 1..NumTeams |-> i]
        played == Filter(ids, {t \in 1..NumTeams : row[t].pointsAllowed > 0})
        mapped == <<>> \o [i \in 1..Len(played) |->
                     [name |-> TeamName(played[i]),
                      totalPointsAllowed |-> row[played[i]].pointsAllowed,
                      gamesPlayed |-> row[played[i]].games,
                      avgPointsAllowedPerGame |->
                          ToFixed2Quot(row[played[i]].pointsAllowed, row[played[i]].games)]]
    IN StableSort(mapped, {<<i, j>> \in (1..Len(mapped)) \X (1..Len(mapped)) :
                 mapped[j].totalPointsAllowed - mapped[i].totalPointsAllowed < 0})

\* mutant of RankTeams: the list is sorted by the per-game average
RankTeams_ByAverage(row) ==
    LET ids == [i \in 1..NumTeams |-> i]
        played == Filter(ids, {t \in 1..NumTeams : row[t].games > 0})
        mapped == <<>> \o [i \in 1..Len(played) |->
                     [name |-> TeamName(played[i]),
                      totalPointsAllowed |-> row[played[i]].pointsAllowed,
                      gamesPlayed |-> row[played[i]].games,
                      avgPointsAllowedPerGame |->
                          ToFixed2Quot(row[played[i]].pointsAllowed, row[played[i]].games)]]
    IN StableSort(mapped, {<<i, j>> \in (1..Len(mapped)) \X (1..Len(mapped)) :
                 mapped[j].avgPointsAllowedPerGame - mapped[i].avgPointsAllowedPerGame < 0})

\* the ranked list of one position
RankTeams(row) ==
    LET ids == [i \in 1..NumTeams |-> i]     \* Object.values: integer keys ascending
        played == Filter(ids, {t \in 1..NumTeams : row[t].games > 0})
        mapped == <<>> \o [i \in 1..Len(played) |->
                     [name |-> TeamName(played[i]),
                      totalPointsAllowed |-> row[played[i]].pointsAllowed,
                      gamesPlayed |-> row[played[i]].games,
                      avgPointsAllowedPerGame |->
                          ToFixed2Quot(row[played[i]].pointsAllowed, row[played[i]].games)]]
    IN StableSort(mapped, {<<i, j>> \in (1..Len(mapped)) \X (1..Len(mapped)) :
                 mapped[j].totalPointsAllowed - mapped[i].totalPointsAllowed < 0})

CalcResults(stats) == [n \in PositionNames |->
    RankTeams(stats[CHOOSE p \in Positions : positionMapping[p] = n])]

calculateResults ==
    /\ pc = "aggregate"
    /\ defenseResults' = CalcResults(teamDefenseStats)
    /\ pc' = "recommend"
    /\ ret' = [op |-> "calculateResults", arg |-> Null, val |-> "results"]
    /\ UNCHANGED <<run, teams, allPlayersData, teamDefenseStats, processed, fixtures,
                   positions, calls>>

\* ------------------------------- TeamDefenseAnalyzer.analyzeTeamDefense
\* const batchSize = 50: the model runs with a smaller batch
batchSize == 2

\* mutant of Batch: the slice stops one player short
Batch_OneShort(i) == {k \in 1..Len(allPlayersData) : i < k /\ k < i + batchSize}

\* playerIds.slice(i, i + batchSize), as places k of allPlayersData
Batch(i) == {k \in 1..Len(allPlayersData) : i < k /\ k <= i + batchSize}

\* batch.map(...): every player of the batch gets a promise and a timer
StartBatch(status, i) ==
    [k \in 1..Len(allPlayersData) |-> IF k \in Batch(i) THEN "waiting" ELSE status[k]]

\* mutant of Settlement: the catch block rejects the promise
Settlement_RejectOnError(outcome) == IF outcome = "rejected" THEN "reject" ELSE "resolve"

\* what the promise of a player does once processPlayerData has resolved or
\* thrown: resolve() in the try block and resolve() in the catch block
Settlement(outcome) == "resolve"

\* mutant of BatchSettled: the loop goes on once every fetch of the batch
\* has been started
BatchSettled_WhenStarted(status, batch) == \A k \in batch : status[k] # "waiting"

\* await Promise.all(batchPromises) continues: every promise is resolved
BatchSettled(status, batch) == \A k \in batch : status[k] = "settled"

\* the code after the loop: return this.calculateResults()
ReturnResults ==
    /\ defenseResults' = CalcResults(teamDefenseStats)
    /\ pc' = "done"
    /\ ret' = [op |-> "analyzeTeamDefense", arg |-> Null, val |-> "resolved"]

\* analyzeTeamDefense() up to its first await: the first batch is set up; with
\* no player the loop is skipped
BeginRun ==
    IF Len(allPlayersData) = 0
    THEN /\ ReturnResults
         /\ run' = [run EXCEPT !.i = 0, !.processedPlayers = 0,
                               !.returned = Append(@, CalcResults(teamDefenseStats))]
    ELSE /\ run' = [run EXCEPT !.i = 0, !.processedPlayers = 0,
                       !.status = StartBatch([k \in 1..Len(allPlayersData) |-> "none"], 0)]
         /\ pc' = "batch"
         /\ ret' = [op |-> "analyzeTeamDefense", arg |-> Null, val |-> "pending"]
         /\ UNCHANGED defenseResults

analyzeTeamDefense ==
    /\ pc = "idle"
    /\ BeginRun
    /\ UNCHANGED <<teams, allPlayersData, teamDefenseStats, processed, fixtures,
                   positions, calls>>

\* the timer of player k fires (index * 100 ms: in batch order) and
\* processPlayerData(playerId) runs up to await getPlayerData(playerId)
timerFires(k) ==
    /\ pc = "batch"
    /\ k \in Batch(run.i)
    /\ run.status[k] = "waiting"
    /\ \A j \in Batch(run.i) : j < k => run.status[j] # "waiting"
    /\ run' = [run EXCEPT !.status[k] = "inflight"]
    /\ UNCHANGED <<teams, allPlayersData, teamDefenseStats, processed, defenseResults,
                   fixtures, positions, pc, calls, ret>>

\* a promise of the batch settles; a rejected one would reject Promise.all
\* and with it analyzeTeamDefense
Settle(k, outcome) ==
    IF Settlement(outcome) = "resolve"
    THEN /\ run' = [run EXCEPT !.status[k] = "settled",
                               !.processedPlayers = @ + 1]
         /\ UNCHANGED <<pc, ret>>
    ELSE /\ run' = [run EXCEPT !.status[k] = "rejected",
                               !.processedPlayers = @ + 1]
         /\ pc' = "aborted"
         /\ ret' = [op |-> "analyzeTeamDefense", arg |-> Null, val |-> "rejected"]

\* getPlayerData of player k resolves: the rest of processPlayerData runs
fetchResolves(k) ==
    /\ pc = "batch"
    /\ k \in DOMAIN run.status
    /\ run.status[k] = "inflight"
    /\ run.responses[k].outcome = "resolved"
    /\ LET playerData == run.responses[k]
           playerPosition == allPlayersData[k].element_type
       IN IF playerData.hasHistory /\ Len(playerData.history) > 0
          THEN /\ teamDefenseStats' =
                      ApplyHistory(teamDefenseStats, playerPosition, playerData.history)
               /\ processed' = processed (+) HistoryBag(playerPosition, playerData.history)
          ELSE UNCHANGED <<teamDefenseStats, processed>>
    /\ Settle(k, "resolved")
    /\ UNCHANGED <<teams, allPlayersData, defenseResults, fixtures, positions, calls>>

\* getPlayerData of player k rejects: processPlayerData throws at its await
\* and the catch block runs
fetchRejects(k) ==
    /\ pc = "batch"
    /\ k \in DOMAIN run.status
    /\ run.status[k] = "inflight"
    /\ run.responses[k].outcome = "rejected"
    /\ Settle(k, "rejected")
    /\ UNCHANGED <<teams, allPlayersData, teamDefenseStats, processed, defenseResults,
                   fixtures, positions, calls>>

\* await Promise.all(batchPromises) continues: the 2 s pause when players
\* remain, the results otherwise
batchSettles ==
    /\ pc = "batch"
    /\ BatchSettled(run.status, Batch(run.i))
    /\ IF run.i + batchSize < Len(allPlayersData)
       THEN /\ pc' = "pause"
            /\ UNCHANGED <<run, defenseResults, ret>>
       ELSE /\ ReturnResults
            /\ run' = [run EXCEPT !.returned = Append(@, CalcResults(teamDefenseStats))]
    /\ UNCHANGED <<teams, allPlayersData, teamDefenseStats, processed, fixtures,
                   positions, calls>>

\* the pause is over: i += batchSize and the next batch is set up
pauseEnds ==
    /\ pc = "pause"
    /\ run' = [run EXCEPT !.i = @ + batchSize,
                          !.status = StartBatch(@, run.i + batchSize)]
    /\ pc' = "batch"
    /\ UNCHANGED <<teams, allPlayersData, teamDefenseStats, processed, defenseResults,
                   fixtures, positions, calls, ret>>

\* analyzeTeamDefense() called again on the analyzer after it returned
analyzeTeamDefenseAgain ==
    /\ pc = "done"
    /\ Len(run.returned) < 2
    /\ BeginRun
    /\ UNCHANGED <<teams, allPlayersData, teamDefenseStats, processed, fixtures,
                   positions, calls>>

\* ----------------------------------------------- PlayerFixtureAnalyzer
\* mutant of VulnerabilityScore: Math.min(10, ...) is dropped
VulnerabilityScore_NoCeiling(teamId, position) ==
    LET positionData == defenseResults[positionMapping[position]]
        bootstrapTeam(team) ==
            FirstIndex({k \in 1..Len(teams) : teams[k].name = team.name})
        teamData == FirstIndex({i \in 1..Len(positionData) :
                      /\ bootstrapTeam(positionData[i]) # 0
                      /\ teams[bootstrapTeam(positionData[i])].id = teamId})
    IN IF teamData = 0 THEN 0
       ELSE Max2(0, positionData[teamData].avgPointsAllowedPerGame * 25)

\* mutant of VulnerabilityScore: the entry is matched on the team being
\* known, not on its id
VulnerabilityScore_AnyKnownTeam(teamId, position) ==
    LET positionData == defenseResults[positionMapping[position]]
        bootstrapTeam(team) ==
            FirstIndex({k \in 1..Len(teams) : teams[k].name = team.name})
        teamData == FirstIndex({i \in 1..Len(positionData) :
                      /\ bootstrapTeam(positionData[i]) # 0
                      /\ teamId \in TeamIds})
    IN IF teamData = 0 THEN 0
       ELSE Min2(10000, Max2(0, positionData[teamData].avgPointsAllowedPerGame * 25))

\* getVulnerabilityScore(teamId, position), in thousandths
VulnerabilityScore(teamId, position) ==
    LET positionData == defenseResults[positionMapping[position]]
        bootstrapTeam(team) ==
            FirstIndex({k \in 1..Len(teams) : teams[k].name = team.name})
        teamData == FirstIndex({i \in 1..Len(positionData) :
                      /\ bootstrapTeam(positionData[i]) # 0
                      /\ teams[bootstrapTeam(positionData[i])].id = teamId})
    IN IF teamData = 0 THEN 0
       ELSE Min2(10000, Max2(0, positionData[teamData].avgPointsAllowedPerGame * 25))

getVulnerabilityScore(teamId, position) ==
    /\ pc = "recommend"
    /\ ret' = [op |-> "getVulnerabilityScore", arg |-> <<teamId, position>>,
               val |-> VulnerabilityScore(teamId, position)]
    /\ UNCHANGED <<run, teams, allPlayersData, teamDefenseStats, processed,
                   defenseResults, fixtures, positions, pc, calls>>

\* Math.max() of no arguments is -Infinity, and -Infinity + 1 is -Infinity
NegInfinity == -1000000

\* new Date(kickoff_time) as a time value: kickoff times are instants 1, 2, ...
\* after the epoch, and new Date(null) is the epoch itself
DateValue(kickoff_time) == IF kickoff_time = Null THEN 0 ELSE kickoff_time

\* f.event || 0
EventOrZero(event) == IF event = Null THEN 0 ELSE event

\* Math.max(...values)
MathMax(values) ==
    IF values = {} THEN NegInfinity ELSE CHOOSE m \in values : \A v \in values : v <= m

\* currentGameweek + i: null counts as 0, -Infinity stays -Infinity
PlusOffset(gameweek, i) ==
    IF gameweek = Null THEN i
    ELSE IF gameweek = NegInfinity THEN NegInfinity
    ELSE gameweek + i

\* getCurrentGameweek(): Null when the earliest upcoming fixture has no event
CurrentGameweek ==
    LET filtered == Filter(fixtures, {i \in 1..Len(fixtures) :
                       fixtures[i].finished = FALSE /\ fixtures[i].started = FALSE})
        upcomingFixtures ==
            StableSort(filtered, {<<i, j>> \in (1..Len(filtered)) \X (1..Len(filtered)) :
                DateValue(filtered[i].kickoff_time)
                    - DateValue(filtered[j].kickoff_time) < 0})
        maxGameweek == MathMax({EventOrZero(fixtures[i].event) : i \in 1..Len(fixtures)})
    IN IF Len(upcomingFixtures) > 0 THEN upcomingFixtures[1].event
       ELSE IF maxGameweek = NegInfinity THEN NegInfinity
       ELSE Min2(38, maxGameweek + 1)

getCurrentGameweek ==
    /\ pc = "recommend"
    /\ ret' = [op |-> "getCurrentGameweek", arg |-> Null, val |-> CurrentGameweek]
    /\ UNCHANGED <<run, teams, allPlayersData, teamDefenseStats, processed,
                   defenseResults, fixtures, positions, pc, calls>>

\* the name of the opponent, 'Unknown' when the bootstrap data has no such team
OpponentName(opponentId) ==
    LET opponent == FirstIndex({k \in 1..Len(teams) : teams[k].id = opponentId})
    IN IF opponent = 0 THEN "Unknown" ELSE teams[opponent].name

\* the .map() callback of getPlayerUpcomingFixtures
FixtureEntry(fixture, player) ==
    LET isHome == fixture.team_h = player.team
        opponentId == IF isHome THEN fixture.team_a ELSE fixture.team_h
    IN [gameweek |-> fixture.event,
        opponent |-> OpponentName(opponentId),
        opponentId |-> opponentId,
        isHome |-> isHome,
        difficulty |-> IF isHome THEN fixture.team_h_difficulty
                       ELSE fixture.team_a_difficulty,
        vulnerabilityScore |-> VulnerabilityScore(opponentId, player.element_type)]

\* the .filter() callback of getPlayerUpcomingFixtures; targetGameweeks holds
\* numbers only, so a fixture without an event is never included
Qualifies(fixture, player, currentGameweek, gameweeksAhead) ==
    /\ fixture.event # Null
    /\ fixture.event \in {PlusOffset(currentGameweek, i) : i \in 0..(gameweeksAhead - 1)}
    /\ (fixture.team_a = player.team \/ fixture.team_h = player.team)
    /\ ~fixture.finished

\* getPlayerUpcomingFixtures(playerId, gameweeksAhead)
PlayerUpcomingFixtures(playerId, gameweeksAhead) ==
    LET player == FirstIndex({i \in 1..Len(allPlayersData) :
                                 allPlayersData[i].id = playerId})
        kept == Filter(fixtures, {i \in 1..Len(fixtures) :
                    Qualifies(fixtures[i], allPlayersData[player],
                              CurrentGameweek, gameweeksAhead)})
        mapped == <<>> \o [i \in 1..Len(kept) |->
                               FixtureEntry(kept[i], allPlayersData[player])]
    IN IF player = 0 THEN <<>>
       ELSE StableSort(mapped, {<<i, j>> \in (1..Len(mapped)) \X (1..Len(mapped)) :
                mapped[i].gameweek - mapped[j].gameweek < 0})

getPlayerUpcomingFixtures(playerId, gameweeksAhead) ==
    /\ pc = "recommend"
    /\ ret' = [op |-> "getPlayerUpcomingFixtures", arg |-> <<playerId, gameweeksAhead>>,
               val |-> PlayerUpcomingFixtures(playerId, gameweeksAhead)]
    /\ UNCHANGED <<run, teams, allPlayersData, teamDefenseStats, processed,
                   defenseResults, fixtures, positions, pc, calls>>

\* Number.prototype.toFixed(2) of a non-negative sum of scores given in
\* thousandths, in hundredths.  A sum that ends on half a hundredth is
\* rounded by the binary value of the double, which may lie on either side:
\* roundUp is the side it lies on.
ToFixed2(thousandths, roundUp) ==
    IF thousandths % 10 = 5
    THEN (thousandths \div 10) + (IF roundUp THEN 1 ELSE 0)
    ELSE (thousandths + 5) \div 10

\* fixtures.reduce((sum, fixture) => sum + fixture.vulnerabilityScore, 0)
TotalVulnerability(upcoming) ==
    SumSeq([i \in 1..Len(upcoming) |-> upcoming[i].vulnerabilityScore])

\* the players whose total ends on half a hundredth
HalfwayTotals(gameweeksAhead) ==
    {allPlayersData[i].id : i \in {k \in 1..Len(allPlayersData) :
        TotalVulnerability(PlayerUpcomingFixtures(allPlayersData[k].id,
                                                  gameweeksAhead)) % 10 = 5}}

\* the .map() callback of analyzeTimeHorizon
AnalysisEntry(player, gameweeksAhead, roundUp) ==
    LET upcoming == PlayerUpcomingFixtures(player.id, gameweeksAhead)
        totalVulnerability == TotalVulnerability(upcoming)
    IN [id |-> player.id,
        positionId |-> player.element_type,
        form |-> player.form,
        fixturesCount |-> Len(upcoming),
        totalVulnerabilityScore |->
            ToFixed2(totalVulnerability, player.id \in DOMAIN roundUp /\ roundUp[player.id]),
        fixtures |-> upcoming]

\* playerAnalysis of analyzeTimeHorizon: eligible players, mapped, and those
\* without fixtures dropped
PlayerAnalysis(gameweeksAhead, roundUp) ==
    LET eligible == Filter(allPlayersData, {i \in 1..Len(allPlayersData) :
                        allPlayersData[i].status = "a" /\ allPlayersData[i].minutes > 200})
        mapped == <<>> \o [i \in 1..Len(eligible) |->
                     AnalysisEntry(eligible[i], gameweeksAhead, roundUp)]
    IN Filter(mapped, {i \in 1..Len(mapped) : mapped[i].fixturesCount > 0})

\* the totals lo (hundredths, up to 40.00) for which the double subtraction
\* parseFloat(lo + 0.50) - parseFloat(lo) comes out above 0.5
HalfPointAbove ==
    {57, 58, 59, 60, 61, 62, 82, 83, 84, 85, 86, 87, 164, 166, 168, 170, 172, 174,
     189, 191, 193, 195, 197, 199, 353, 357, 361, 365, 369, 373, 378, 382, 386, 390,
     394, 398, 755, 756, 763, 764, 771, 772, 780, 781, 788, 789, 796, 797, 1551,
     1553, 1560, 1562, 1567, 1569, 1576, 1578, 1585, 1587, 1592, 1594, 3152, 3156,
     3159, 3163, 3170, 3174, 3177, 3181, 3184, 3188, 3195, 3199}

\* Math.abs(scoreDiff) > 0.5 for two totals in hundredths
ExceedsHalf(x, y) ==
    \/ Abs(x - y) > 50
    \/ Abs(x - y) = 50 /\ Min2(x, y) \in HalfPointAbove

\* the sign of the comparator of analyzeTimeHorizon on entries a, b
Compare(a, b) ==
    LET scoreDiff == b.totalVulnerabilityScore - a.totalVulnerabilityScore
        formDiff == b.form - a.form
        decided == IF ExceedsHalf(a.totalVulnerabilityScore, b.totalVulnerabilityScore)
                   THEN scoreDiff ELSE formDiff
    IN IF decided < 0 THEN -1 ELSE IF decided > 0 THEN 1 ELSE 0

\* ECMAScript's "consistent comparison function" for the elements of list
ConsistentComparator(list) ==
    LET idx == 1..Len(list)
        c(i, j) == Compare(list[i], list[j])
    IN /\ \A i \in idx : c(i, i) = 0
       /\ \A i, j \in idx : c(i, j) = -c(j, i)
       /\ \A i, j, k \in idx :
             /\ (c(i, j) = 0 /\ c(j, k) = 0) => c(i, k) = 0
             /\ (c(i, j) < 0 /\ c(j, k) < 0) => c(i, k) < 0
             /\ (c(i, j) > 0 /\ c(j, k) > 0) => c(i, k) > 0

Arrangements(list) ==
    {[i \in 1..Len(list) |-> list[f[i]]] :
        f \in {g \in [1..Len(list) -> 1..Len(list)] :
                 \A i, j \in 1..Len(list) : g[i] = g[j] => i = j}}

\* what positions[position].sort(comparator) may leave: the stable order when
\* the comparator is consistent for the list; otherwise ECMAScript leaves the
\* order to the implementation, and any arrangement of the elements can result
SortOutcomes(list) ==
    IF ConsistentComparator(list)
    THEN {StableSort(list, {<<i, j>> \in (1..Len(list)) \X (1..Len(list)) :
                               Compare(list[i], list[j]) < 0})}
    ELSE Arrangements(list)

PositionTitles == <<"Goalkeeper", "Defender", "Midfielder", "Forward">>

\* analyzeTimeHorizon(gameweeksAhead)
analyzeTimeHorizon(gameweeksAhead) ==
    /\ pc = "recommend"
    /\ \E roundUp \in [HalfwayTotals(gameweeksAhead) -> BOOLEAN] :
         \E playerAnalysis \in {PlayerAnalysis(gameweeksAhead, roundUp)} :
         LET group(p) == Filter(playerAnalysis, {i \in 1..Len(playerAnalysis) :
                                    playerAnalysis[i].positionId = p})
         IN \E gk \in SortOutcomes(group(1)), df \in SortOutcomes(group(2)),
               md \in SortOutcomes(group(3)), fw \in SortOutcomes(group(4)) :
               positions' = [Goalkeeper |-> gk, Defender |-> df,
                             Midfielder |-> md, Forward |-> fw]
    /\ ret' = [op |-> "analyzeTimeHorizon", arg |-> gameweeksAhead, val |-> "positions"]
    /\ UNCHANGED <<run, teams, allPlayersData, teamDefenseStats, processed,
                   defenseResults, fixtures, pc, calls>>

\* ------------------------------------------------------- FPLAnalyzer
\* Numbers: cost (now_cost / 10) is kept in tenths, i.e. as now_cost; form and
\* selected_by_percent in tenths; pointsPerMillion, the output of toFixed(2),
\* in hundredths; averagePoints, the output of toFixed(1), in tenths.

\* (0 / 0).toFixed(1) is the string 'NaN'
NaN == -999999

\* Math.ceil(minutes / 90)
Ceil90(minutes) == (minutes + 89) \div 90

\* mutant of IsRegularStarter: the first test is minutes <= 450
IsRegularStarter_Above450(player) ==
    IF player.minutes <= 450 THEN FALSE
    ELSE LET estimatedGamesPlayed == Max2(1, Ceil90(player.minutes))
             hasRecentPlayingTime == player.form # 0 \/ player.minutes >= 1800
         IN player.minutes >= 60 * estimatedGamesPlayed /\ hasRecentPlayingTime

\* isRegularStarter(player); minutes / estimatedGamesPlayed >= 60 is
\* compared as minutes >= 60 * estimatedGamesPlayed
IsRegularStarter(player) ==
    IF player.minutes < 450 THEN FALSE
    ELSE LET estimatedGamesPlayed == Max2(1, Ceil90(player.minutes))
             hasRecentPlayingTime == player.form # 0 \/ player.minutes >= 1800
         IN player.minutes >= 60 * estimatedGamesPlayed /\ hasRecentPlayingTime

isRegularStarter(k) ==
    /\ pc = "fpl"
    /\ k \in 1..Len(allPlayersData)
    /\ ret' = [op |-> "isRegularStarter", arg |-> allPlayersData[k],
               val |-> IsRegularStarter(allPlayersData[k])]
    /\ UNCHANGED <<run, teams, allPlayersData, teamDefenseStats, processed,
                   defenseResults, fixtures, positions, pc, calls>>

\* array.slice(0, limit) for 0 <= limit
SliceTo(list, limit) == SubSeq(list, 1, Min2(limit, Len(list)))

\* the index pairs <<i, j>> for which a descending comparator on key is
\* negative: list[j].key - list[i].key < 0
Descending(keys) ==
    {<<i, j>> \in (1..Len(keys)) \X (1..Len(keys)) : keys[j] - keys[i] < 0}

\* this.allPlayersData.sort((a, b) => b.total_points - a.total_points)
SortedByPoints(list) ==
    StableSort(list, Descending([i \in 1..Len(list) |-> list[i].total_points]))

\* getTopScorers(limit): Array.prototype.sort sorts allPlayersData in place
TopScorers(limit) ==
    LET top == SliceTo(SortedByPoints(allPlayersData), limit)
    IN <<>> \o [i \in 1..Len(top) |->
                  [webName |-> top[i].web_name,
                   totalPoints |-> top[i].total_points,
                   form |-> top[i].form,
                   cost |-> top[i].now_cost,
                   selectedBy |-> top[i].selected_by_percent]]

getTopScorers(limit) ==
    /\ pc = "fpl"
    /\ allPlayersData' = SortedByPoints(allPlayersData)
    /\ ret' = [op |-> "getTopScorers", arg |-> limit, val |-> TopScorers(limit)]
    /\ UNCHANGED <<run, teams, teamDefenseStats, processed,
                   defenseResults, fixtures, positions, pc, calls>>

\* getBestValuePlayers(limit)
BestValuePlayers(limit) ==
    LET starters == Filter(allPlayersData, {i \in 1..Len(allPlayersData) :
                        IsRegularStarter(allPlayersData[i])
                            /\ allPlayersData[i].total_points > 20})
        mapped == <<>> \o [i \in 1..Len(starters) |->
                     [webName |-> starters[i].web_name,
                      totalPoints |-> starters[i].total_points,
                      cost |-> starters[i].now_cost,
                      pointsPerMillion |->
                          ToFixed2Quot(10 * starters[i].total_points, starters[i].now_cost),
                      form |-> starters[i].form,
                      selectedBy |-> starters[i].selected_by_percent,
                      minutes |-> starters[i].minutes]]
        costly == Filter(mapped, {i \in 1..Len(mapped) : mapped[i].cost > 40})
    IN SliceTo(StableSort(costly,
                   Descending([i \in 1..Len(costly) |-> costly[i].pointsPerMillion])),
               limit)

getBestValuePlayers(limit) ==
    /\ pc = "fpl"
    /\ ret' = [op |-> "getBestValuePlayers", arg |-> limit, val |-> BestValuePlayers(limit)]
    /\ UNCHANGED <<run, teams, allPlayersData, teamDefenseStats, processed,
                   defenseResults, fixtures, positions, pc, calls>>

\* getPlayersByPosition(position)
PlayersByPosition(position) ==
    LET players == SortedByPoints(Filter(allPlayersData, {i \in 1..Len(allPlayersData) :
                        allPlayersData[i].element_type = position}))
    IN <<>> \o [i \in 1..Len(players) |->
                  [webName |-> players[i].web_name,
                   position |-> PositionTitles[players[i].element_type],
                   totalPoints |-> players[i].total_points,
                   goalsScored |-> players[i].goals_scored,
                   assists |-> players[i].assists,
                   cleanSheets |-> players[i].clean_sheets,
                   cost |-> players[i].now_cost,
                   form |-> players[i].form,
                   minutes |-> players[i].minutes,
                   selectedBy |-> players[i].selected_by_percent]]

getPlayersByPosition(position) ==
    /\ pc = "fpl"
    /\ ret' = [op |-> "getPlayersByPosition", arg |-> position,
               val |-> PlayersByPosition(position)]
    /\ UNCHANGED <<run, teams, allPlayersData, teamDefenseStats, processed,
                   defenseResults, fixtures, positions, pc, calls>>

\* getBestFormPlayers(limit)
BestFormPlayers(limit) ==
    LET starters == Filter(allPlayersData, {i \in 1..Len(allPlayersData) :
                        IsRegularStarter(allPlayersData[i])
                            /\ allPlayersData[i].total_points > 20})
        top == SliceTo(StableSort(starters,
                           Descending([i \in 1..Len(starters) |-> starters[i].form])),
                       limit)
    IN <<>> \o [i \in 1..Len(top) |->
                  [webName |-> top[i].web_name,
                   form |-> top[i].form,
                   totalPoints |-> top[i].total_points,
                   cost |-> top[i].now_cost,
                   minutes |-> top[i].minutes,
                   selectedBy |-> top[i].selected_by_percent]]

getBestFormPlayers(limit) ==
    /\ pc = "fpl"
    /\ ret' = [op |-> "getBestFormPlayers", arg |-> limit, val |-> BestFormPlayers(limit)]
    /\ UNCHANGED <<run, teams, allPlayersData, teamDefenseStats, processed,
                   defenseResults, fixtures, positions, pc, calls>>

\* (num / den).toFixed(1) in tenths, for num >= 0: NaN for 0 / 0
ToFixed1Quot(num, den) ==
    IF den = 0 THEN NaN ELSE (20 * num + den) \div (2 * den)

\* the players of the snapshot that count for team id teamId
TeamPlayers(teamId) ==
    Filter(allPlayersData, {i \in 1..Len(allPlayersData) : allPlayersData[i].team = teamId})

\* teamStats[team.id] after the aggregation and the averages
TeamStats(team) ==
    LET players == TeamPlayers(team.id)
        totalPoints == SumSeq([i \in 1..Len(players) |-> players[i].total_points])
    IN [name |-> team.name,
        totalPoints |-> totalPoints,
        playerCount |-> Len(players),
        averagePoints |-> ToFixed1Quot(totalPoints, Len(players)),
        totalGoals |-> SumSeq([i \in 1..Len(players) |-> players[i].goals_scored]),
        totalAssists |-> SumSeq([i \in 1..Len(players) |-> players[i].assists]),
        cleanSheets |-> SumSeq([i \in 1..Len(players) |-> players[i].clean_sheets])]

\* analyzeTeamPerformance(): Object.values lists the teams by ascending id
TeamPerformance ==
    LET byId == StableSort(teams, {<<i, j>> \in (1..Len(teams)) \X (1..Len(teams)) :
                                      teams[i].id < teams[j].id})
        stats == <<>> \o [i \in 1..Len(byId) |-> TeamStats(byId[i])]
    IN StableSort(stats, Descending([i \in 1..Len(stats) |-> stats[i].totalPoints]))

analyzeTeamPerformance ==
    /\ pc = "fpl"
    /\ ret' = [op |-> "analyzeTeamPerformance", arg |-> Null, val |-> TeamPerformance]
    /\ UNCHANGED <<run, teams, allPlayersData, teamDefenseStats, processed,
                   defenseResults, fixtures, positions, pc, calls>>

\* getDifferentialPicks(maxOwnership, minPoints)
DifferentialPicks(maxOwnership, minPoints) ==
    LET picks == SortedByPoints(Filter(allPlayersData, {i \in 1..Len(allPlayersData) :
                     /\ allPlayersData[i].selected_by_percent <= maxOwnership
                     /\ allPlayersData[i].total_points >= minPoints
                     /\ IsRegularStarter(allPlayersData[i])}))
    IN <<>> \o [i \in 1..Len(picks) |->
                  [webName |-> picks[i].web_name,
                   totalPoints |-> picks[i].total_points,
                   cost |-> picks[i].now_cost,
                   ownership |-> picks[i].selected_by_percent,
                   form |-> picks[i].form,
                   position |-> PositionTitles[picks[i].element_type]]]

getDifferentialPicks(maxOwnership, minPoints) ==
    /\ pc = "fpl"
    /\ ret' = [op |-> "getDifferentialPicks", arg |-> <<maxOwnership, minPoints>>,
               val |-> DifferentialPicks(maxOwnership, minPoints)]
    /\ UNCHANGED <<run, teams, allPlayersData, teamDefenseStats, processed,
                   defenseResults, fixtures, positions, pc, calls>>

\* getDetailedPlayerStats(playerId): the history is fetched before basicInfo
\* is tested, so a failed fetch throws its own error first
DetailedPlayerStats(playerId, fetched) ==
    LET basicInfo == FirstIndex({i \in 1..Len(allPlayersData) :
                                    allPlayersData[i].id = playerId})
    IN IF fetched = "rejected"
       THEN [status |-> "rejected", error |-> "HTTP error", webName |-> ""]
       ELSE IF basicInfo = 0
       THEN [status |-> "rejected", error |-> "not found", webName |-> ""]
       ELSE [status |-> "resolved", error |-> "",
             webName |-> allPlayersData[basicInfo].web_name]

getDetailedPlayerStats(playerId, fetched) ==
    /\ pc = "fpl"
    /\ ret' = [op |-> "getDetailedPlayerStats", arg |-> <<playerId, fetched>>,
               val |-> DetailedPlayerStats(playerId, fetched)]
    /\ UNCHANGED <<run, teams, allPlayersData, teamDefenseStats, processed,
                   defenseResults, fixtures, positions, pc, calls>>

\* ------------------------------------------------ top-level functions
\* how a fetch of the bootstrap data or of the fixtures can end: a response
\* with the data; a network error (fetch rejects); an HTTP error status with
\* a body that is not JSON; an HTTP error status with a JSON body that is
\* not the data
FetchOutcomes == {"ok", "network", "statusText", "statusJson"}

\* loadBootstrapData of FPLAnalyzer and of TeamDefenseAnalyzer: fetch or
\* response.json() throws, or allPlayersData is undefined and reading its
\* length throws; the catch block throws the error on
LoadBootstrapThrows(bootstrap) == bootstrap # "ok"

\* getAllFixtures of requests.js: fetch throws or response.ok is false
GetAllFixturesThrows(fetched) == fetched # "ok"

\* PlayerFixtureAnalyzer.initialize: only fetch or response.json() can throw
InitializeThrows(bootstrap, fetched) ==
    \/ bootstrap \in {"network", "statusText"}
    \/ fetched \in {"network", "statusText"}

\* getPlayerRecommendations after such an initialize: allPlayersData.filter
\* throws when the bootstrap body was not the data, and fixtures.filter throws
\* in getCurrentGameweek, which is reached for the first eligible player
RecommendationsThrow(bootstrap, fetched) ==
    \/ bootstrap = "statusJson"
    \/ /\ fetched = "statusJson"
       /\ \E i \in 1..Len(allPlayersData) :
             allPlayersData[i].status = "a" /\ allPlayersData[i].minutes > 200

\* runAnalysis(): the catch block logs the error and the function returns
runAnalysis(bootstrap, fetched) ==
    /\ pc = "top"
    /\ ret' = [op |-> "runAnalysis", arg |-> <<bootstrap, fetched>>,
               val |-> "resolved",
               results |-> ~(LoadBootstrapThrows(bootstrap) \/ GetAllFixturesThrows(fetched))]
    /\ UNCHANGED <<run, teams, allPlayersData, teamDefenseStats, processed,
                   defenseResults, fixtures, positions, pc, calls>>

\* runTeamDefenseAnalysis(): the catch block throws the error on
runTeamDefenseAnalysis(bootstrap) ==
    /\ pc = "top"
    /\ ret' = [op |-> "runTeamDefenseAnalysis", arg |-> <<bootstrap>>,
               val |-> IF LoadBootstrapThrows(bootstrap) THEN "rejected" ELSE "resolved",
               results |-> ~LoadBootstrapThrows(bootstrap)]
    /\ UNCHANGED <<run, teams, allPlayersData, teamDefenseStats, processed,
                   defenseResults, fixtures, positions, pc, calls>>

\* runCompleteAnalysis(): the defense analysis, then the recommendations
\* from a second bootstrap fetch and the fixtures fetch
runCompleteAnalysis(first, bootstrap, fetched) ==
    /\ pc = "top"
    /\ LET throws == \/ LoadBootstrapThrows(first)
                     \/ InitializeThrows(bootstrap, fetched)
                     \/ RecommendationsThrow(bootstrap, fetched)
       IN ret' = [op |-> "runCompleteAnalysis", arg |-> <<first, bootstrap, fetched>>,
                  val |-> IF throws THEN "rejected" ELSE "resolved",
                  results |-> ~throws]
    /\ UNCHANGED <<run, teams, allPlayersData, teamDefenseStats, processed,
                   defenseResults, fixtures, positions, pc, calls>>

\* ------------------------------------------------------- specification
BootstrapTeams == [i \in 1..NumTeams |-> [id |-> i, name |-> AllTeamNames[i]]]

\* Spec: one aggregation run of TeamDefenseAnalyzer.  Two players, each a
\* midfielder (3) or a forward (4); every fetch outcome is possible.
NumPlayers == 2
AggPlayers == {[i \in 1..NumPlayers |-> [id |-> i, team |-> 1, element_type |-> et[i],
                                         status |-> "a", minutes |-> 900, form |-> 10]]
               : et \in [1..NumPlayers -> {3, 4}]}

Init ==
    /\ teams = BootstrapTeams
    /\ allPlayersData \in AggPlayers
    /\ teamDefenseStats = ZeroStats
    /\ processed = EmptyBag
    /\ defenseResults = [n \in PositionNames |-> <<>>]
    /\ fixtures = <<>>
    /\ positions = [n \in {PositionTitles[p] : p \in Positions} |-> <<>>]
    /\ pc = "aggregate"
    /\ calls = 0
    /\ ret = [op |-> "init", arg |-> Null, val |-> "none"]
    /\ run = NoRun

Next ==
    \/ \E id \in 1..(NumPlayers + 1), d \in PlayerDataResponses : processPlayerData(id, d)
    \/ \E id \in 1..NumPlayers : processPlayerDataFails(id)
    \/ calculateResults

Spec == Init /\ [][Next]_vars

\* SpecScore: calculateResults and getVulnerabilityScore over a table the
\* aggregation can leave behind.  One position holds a row of cells, each
\* empty or with 1..MaxGames games; the other positions saw no player.
MaxGames == 3
PointTotals == {-1, 4, 11}
Cells == {[pointsAllowed |-> 0, games |-> 0]}
            \cup [pointsAllowed : PointTotals, games : 1..MaxGames]
DefenseTables ==
    {[p \in Positions |-> IF p = q THEN row ELSE ZeroStats[p]]
        : q \in Positions, row \in [TeamIds -> Cells]}

InitScore ==
    /\ teams = BootstrapTeams
    /\ allPlayersData \in AggPlayers
    /\ teamDefenseStats \in DefenseTables
    /\ processed = EmptyBag
    /\ defenseResults = [n \in PositionNames |-> <<>>]
    /\ fixtures = <<>>
    /\ positions = [n \in {PositionTitles[p] : p \in Positions} |-> <<>>]
    /\ pc = "aggregate"
    /\ calls = 0
    /\ ret = [op |-> "init", arg |-> Null, val |-> "none"]
    /\ run = NoRun

NextScore ==
    \/ calculateResults
    \/ \E t \in 0..(NumTeams + 1), p \in Positions : getVulnerabilityScore(t, p)

SpecScore == InitScore /\ [][NextScore]_vars


\* ---- the PlayerFixtureAnalyzer specifications: the analyzer as constructed
\* from the results of a defense table and initialized with fetched data
MaxFixtures == 2     \* longest fixture list a fetch returns

Player(id, team, element_type, status, minutes, form) ==
    [id |-> id, team |-> team, element_type |-> element_type,
     status |-> status, minutes |-> minutes, form |-> form]

Fixture(event, team_h, team_a, started, finished, kickoff_time) ==
    [event |-> event, team_h |-> team_h, team_a |-> team_a,
     started |-> started, finished |-> finished, kickoff_time |-> kickoff_time,
     team_h_difficulty |-> 2, team_a_difficulty |-> 4]

\* a table with thirds for the forwards and whole averages for the midfielders
SampleTable ==
    [p \in Positions |-> [t \in TeamIds |->
        IF p = 4 THEN [pointsAllowed |-> 7 * t - 3, games |-> 3]
        ELSE IF p = 3 THEN [pointsAllowed |-> 5 * t - 6, games |-> 1]
        ELSE [pointsAllowed |-> 0, games |-> 0]]]

\* teams is the bootstrap data the results were computed with
InitAnalyzer(table, results, players, fetched) ==
    /\ allPlayersData = players
    /\ teamDefenseStats = table
    /\ processed = EmptyBag
    /\ defenseResults = results
    /\ fixtures = fetched
    /\ positions = [n \in {PositionTitles[p] : p \in Positions} |-> <<>>]
    /\ pc = "recommend"
    /\ calls = 0
    /\ ret = [op |-> "init", arg |-> Null, val |-> "none"]
    /\ run = NoRun

\* SpecGW: getCurrentGameweek over lists of fixtures that are unscheduled
\* (no event, no kickoff time) or set in gameweek 1, 2 or 38 at instant 1, 2
\* or 3, and that are started or not, finished or not
GWFixtures ==
    {Fixture(when[1], 1, 2, st, fi, when[2]) :
        when \in {<<Null, Null>>} \cup ({1, 2, 38} \X {1, 2, 3}),
        st \in BOOLEAN, fi \in BOOLEAN}

TwoForwards == <<Player(1, 1, 4, "a", 900, 10), Player(2, 2, 4, "a", 900, 20)>>

InitGW ==
    /\ teams = BootstrapTeams
    /\ \E results \in {CalcResults(SampleTable)} :
       \E fetched \in SeqsUpTo(GWFixtures, MaxFixtures) :
          InitAnalyzer(SampleTable, results, TwoForwards, fetched)

NextGW == getCurrentGameweek

SpecGW == InitGW /\ [][NextGW]_vars

\* SpecFix: getPlayerUpcomingFixtures over fixture lists between teams 1 and 2,
\* home and away, in gameweeks 1 and 2 or unscheduled, kicked off in gameweek
\* order; player 1 plays for team 1 or for team 3, which has no fixture
FixFixtures ==
    {Fixture(e, h, 3 - h, sf[1], sf[2], e) :
        e \in {Null, 1, 2}, h \in {1, 2},
        sf \in {<<FALSE, FALSE>>, <<TRUE, FALSE>>, <<TRUE, TRUE>>}}

FixPlayers ==
    {<<Player(1, t, et, "a", 900, 10), Player(2, 2, 4, "a", 900, 20)>> :
        t \in {1, 3}, et \in {3, 4}}

InitFix ==
    /\ teams = BootstrapTeams
    /\ \E results \in {CalcResults(SampleTable)} :
       \E players \in FixPlayers, fetched \in SeqsUpTo(FixFixtures, MaxFixtures) :
          InitAnalyzer(SampleTable, results, players, fetched)

NextFix ==
    \E id \in 1..3, n \in 1..2 : getPlayerUpcomingFixtures(id, n)

SpecFix == InitFix /\ [][NextFix]_vars

\* SpecHorizon: analyzeTimeHorizon over the same fixture lists and players
\* that are available or not, with more than 200 minutes or exactly 200
Eligibility == {<<"a", 201>>, <<"a", 200>>, <<"i", 900>>}

HorizonPlayers ==
    {<<Player(1, t, 4, e1[1], e1[2], 10), Player(2, 2, et, e2[1], e2[2], 20)>> :
        t \in {1, 3}, et \in {3, 4}, e1 \in Eligibility, e2 \in Eligibility}

InitHorizon ==
    /\ teams = BootstrapTeams
    /\ \E results \in {CalcResults(SampleTable)} :
       \E players \in HorizonPlayers, fetched \in SeqsUpTo(FixFixtures, MaxFixtures) :
          InitAnalyzer(SampleTable, results, players, fetched)

NextHorizon == \E n \in 1..2 : analyzeTimeHorizon(n)

SpecHorizon == InitHorizon /\ [][NextHorizon]_vars

\* SpecRank: the ranking of three forwards, one per team, over any part of a
\* round of fixtures 1-2, 2-3, 3-1 and any forwards row with averages
\* 0.2, 0.4, 1 and 4 (scores 0.5, 1, 2.5 and 10) or no games
RankCells == {[pointsAllowed |-> 0, games |-> 0], [pointsAllowed |-> 1, games |-> 5],
              [pointsAllowed |-> 2, games |-> 5], [pointsAllowed |-> 1, games |-> 1],
              [pointsAllowed |-> 4, games |-> 1]}

RankTables ==
    {[p \in Positions |-> IF p = 4 THEN row ELSE ZeroStats[p]] : row \in [TeamIds -> RankCells]}

RankPlayers ==
    {[i \in 1..3 |-> Player(i, i, 4, "a", 900, f[i])] : f \in [1..3 -> {10, 20, 30}]}

Round == <<Fixture(1, 1, 2, FALSE, FALSE, 1), Fixture(1, 2, 3, FALSE, FALSE, 1),
           Fixture(1, 3, 1, FALSE, FALSE, 1)>>

RankFixtures == {Filter(Round, keep) : keep \in SUBSET (1..3)}

InitRank ==
    /\ teams = BootstrapTeams
    /\ \E table \in RankTables :
       \E results \in {CalcResults(table)} :
       \E players \in RankPlayers, fetched \in RankFixtures :
          InitAnalyzer(table, results, players, fetched)

NextRank == analyzeTimeHorizon(1)

SpecRank == InitRank /\ [][NextRank]_vars


\* ---- SpecRun: one analyzeTeamDefense run over three players (two batches);
\* every player's fetch rejects or resolves with one of four histories, and
\* timers and fetches interleave in every way the event loop allows
NumRunPlayers == 3

RunPlayers ==
    [k \in 1..NumRunPlayers |->
        Player(10 * k, 1 + (k % NumTeams), IF k = NumRunPlayers THEN 3 ELSE 4, "a", 900, 10)]

RunHistories ==
    {<<>>,
     <<[opponent_team |-> 1, minutes |-> 90, total_points |-> 6]>>,
     <<[opponent_team |-> 1, minutes |-> 90, total_points |-> -1]>>,
     <<[opponent_team |-> 2, minutes |-> 90, total_points |-> 6],
       [opponent_team |-> 1, minutes |-> 0, total_points |-> 0]>>}

RunResponses ==
    {[outcome |-> "rejected", hasHistory |-> FALSE, history |-> <<>>]}
        \cup {[outcome |-> "resolved", hasHistory |-> TRUE, history |-> h] :
                 h \in RunHistories}

InitRun ==
    /\ teams = BootstrapTeams
    /\ allPlayersData = RunPlayers
    /\ teamDefenseStats = ZeroStats
    /\ processed = EmptyBag
    /\ defenseResults = [n \in PositionNames |-> <<>>]
    /\ fixtures = <<>>
    /\ positions = [n \in {PositionTitles[p] : p \in Positions} |-> <<>>]
    /\ pc = "idle"
    /\ calls = 0
    /\ ret = [op |-> "init", arg |-> Null, val |-> "none"]
    /\ \E responses \in [1..NumRunPlayers -> RunResponses] :
          run = [NoRun EXCEPT !.responses = responses]

NextRun ==
    \/ analyzeTeamDefense
    \/ \E k \in 1..NumRunPlayers : timerFires(k)
    \/ \E k \in 1..NumRunPlayers : fetchResolves(k)
    \/ \E k \in 1..NumRunPlayers : fetchRejects(k)
    \/ batchSettles
    \/ pauseEnds

SpecRun == InitRun /\ [][NextRun]_vars

\* SpecRunFair: the same run on the event loop: a timer that is due fires, a
\* fetch in flight settles (the assumption under which termination is
\* claimed), and a continuation that is ready runs
RunFairness ==
    /\ \A k \in 1..NumRunPlayers : WF_vars(timerFires(k))
    /\ \A k \in 1..NumRunPlayers : WF_vars(fetchResolves(k))
    /\ \A k \in 1..NumRunPlayers : WF_vars(fetchRejects(k))
    /\ WF_vars(batchSettles)
    /\ WF_vars(pauseEnds)

SpecRunFair == InitRun /\ [][NextRun]_vars /\ RunFairness

\* SpecRerun: the same, and analyzeTeamDefense is called a second time
NextRerun == NextRun \/ analyzeTeamDefenseAgain

SpecRerun == InitRun /\ [][NextRerun]_vars


\* ---- SpecTop: the top-level functions against a data source that serves a
\* snapshot of two players and whose bootstrap and fixtures fetches end in
\* any of the four ways
InitTop ==
    /\ teams = BootstrapTeams
    /\ allPlayersData \in HorizonPlayers
    /\ teamDefenseStats = ZeroStats
    /\ processed = EmptyBag
    /\ defenseResults = [n \in PositionNames |-> <<>>]
    /\ fixtures = <<>>
    /\ positions = [n \in {PositionTitles[p] : p \in Positions} |-> <<>>]
    /\ pc = "top"
    /\ calls = 0
    /\ ret = [op |-> "init", arg |-> <<>>, val |-> "none", results |-> FALSE]
    /\ run = NoRun

NextTop ==
    \/ \E b \in FetchOutcomes, f \in FetchOutcomes : runAnalysis(b, f)
    \/ \E b \in FetchOutcomes : runTeamDefenseAnalysis(b)
    \/ \E a \in FetchOutcomes, b \in FetchOutcomes, f \in FetchOutcomes :
          runCompleteAnalysis(a, b, f)

SpecTop == InitTop /\ [][NextTop]_vars


\* ---- SpecFPL: an initialized FPLAnalyzer over a snapshot of two forwards,
\* the first of team 1, the second of team 1 or 2 (the last team has no
\* player); points, cost, minutes and form vary around the thresholds
NumFplPlayers == 2

WebNames == <<"Saka", "Rice", "Watkins", "Palmer">>

FplPlayerKinds ==
    [total_points : {20, 21, 60}, now_cost : {40, 45},
     minutes : {449, 450, 1799, 1800}, form : {0, 5}]

FplPlayer(k, team, kind) ==
    [id |-> k, web_name |-> WebNames[k], team |-> team, element_type |-> 4,
     total_points |-> kind.total_points, now_cost |-> kind.now_cost,
     minutes |-> kind.minutes, form |-> kind.form,
     selected_by_percent |-> 49 + k, goals_scored |-> k, assists |-> 1,
     clean_sheets |-> 0]

FplSnapshots ==
    {[k \in 1..NumFplPlayers |-> FplPlayer(k, IF k = 1 THEN 1 ELSE team, kind[k])] :
        team \in {1, 2}, kind \in [1..NumFplPlayers -> FplPlayerKinds]}

InitFPL ==
    /\ teams = BootstrapTeams
    /\ allPlayersData \in FplSnapshots
    /\ teamDefenseStats = ZeroStats
    /\ processed = EmptyBag
    /\ defenseResults = [n \in PositionNames |-> <<>>]
    /\ fixtures = <<>>
    /\ positions = [n \in {PositionTitles[p] : p \in Positions} |-> <<>>]
    /\ pc = "fpl"
    /\ calls = 0
    /\ ret = [op |-> "init", arg |-> Null, val |-> "none"]
    /\ run = NoRun

NextFPL ==
    \/ \E k \in 1..NumFplPlayers : isRegularStarter(k)
    \/ \E limit \in 0..NumFplPlayers : getTopScorers(limit)
    \/ \E limit \in 0..NumFplPlayers : getBestValuePlayers(limit)
    \/ \E position \in {3, 4} : getPlayersByPosition(position)
    \/ \E limit \in 0..NumFplPlayers : getBestFormPlayers(limit)
    \/ analyzeTeamPerformance
    \/ \E minPoints \in {21, 50} : getDifferentialPicks(50, minPoints)
    \/ \E id \in 1..(NumFplPlayers + 1), fetched \in {"resolved", "rejected"} :
          getDetailedPlayerStats(id, fetched)

SpecFPL == InitFPL /\ [][NextFPL]_vars

\* ================================================================ claims
\* weighted sum of total_points over a set of bag elements <<position, record>>
RECURSIVE SumPoints(_)
SumPoints(S) ==
    IF S = {} THEN 0
    ELSE LET e == CHOOSE x \in S : TRUE
         IN processed[e] * e[2].total_points + SumPoints(S \ {e})

RECURSIVE SumCopies(_)
SumCopies(S) ==
    IF S = {} THEN 0
    ELSE LET e == CHOOSE x \in S : TRUE
         IN processed[e] + SumCopies(S \ {e})

\* the processed records that count for cell (p, t)
Contributing(p, t) ==
    {e \in BagToSet(processed) :
        e[1] = p /\ e[2].minutes > 0 /\ e[2].opponent_team = t}

\* C1: after any sequence of processPlayerData calls, every cell (p, t) holds
\* games = the number of processed records of position-p players with
\* minutes > 0 and opponent_team = t, and pointsAllowed = the sum of their
\* total_points; records with minutes = 0 or an opponent without a cell
\* therefore change no cell.
C1_CellsCountPlayedRecords ==
    \A p \in Positions : \A t \in TeamIds :
        /\ teamDefenseStats[p][t].games = SumCopies(Contributing(p, t))
        /\ teamDefenseStats[p][t].pointsAllowed = SumPoints(Contributing(p, t))

\* a run in which a played record, a record with minutes = 0 and a record
\* against an opponent without a cell were all processed
C1_Witness ==
    /\ ret.op = "processPlayerData"
    /\ \E p \in Positions, t \in TeamIds : teamDefenseStats[p][t].games = 2
    /\ \E e \in BagToSet(processed) : e[2].minutes = 0 /\ e[2].opponent_team \in TeamIds
    /\ \E e \in BagToSet(processed) : e[2].minutes > 0 /\ e[2].opponent_team \notin TeamIds

\* the teams of position p with at least one game counted
Played(p) == {t \in TeamIds : teamDefenseStats[p][t].games > 0}

\* C2: calculateResults lists under each position exactly the teams whose
\* cell has games > 0, each with avgPointsAllowedPerGame within half a
\* hundredth of pointsAllowed / games; a cell with games = 0 is never listed.
C2_ResultsListPlayedTeams ==
    ret.op = "calculateResults" =>
        \A p \in Positions :
            LET list == defenseResults[positionMapping[p]]
            IN /\ Len(list) = Cardinality(Played(p))
               /\ \A t \in Played(p) : \E i \in 1..Len(list) :
                     /\ list[i].name = AllTeamNames[t]
                     /\ list[i].gamesPlayed = teamDefenseStats[p][t].games
                     /\ list[i].totalPointsAllowed = teamDefenseStats[p][t].pointsAllowed
                     /\ 2 * Abs(list[i].avgPointsAllowedPerGame * list[i].gamesPlayed
                                  - 100 * list[i].totalPointsAllowed)
                           <= list[i].gamesPlayed
               /\ \A i \in 1..Len(list) :
                     /\ list[i].gamesPlayed > 0
                     /\ \E t \in Played(p) : list[i].name = AllTeamNames[t]

\* results with a team left out (no games) and an average that had to be
\* rounded (11 / 3 = 3.67)
C2_Witness ==
    /\ ret.op = "calculateResults"
    /\ \E p \in Positions :
          /\ Played(p) # {} /\ Played(p) # TeamIds
          /\ \E i \in 1..Len(defenseResults[positionMapping[p]]) :
                defenseResults[positionMapping[p]][i].avgPointsAllowedPerGame = 367

\* clamp(avg * 2.5, 0, 10) in thousandths, for avg given in hundredths
ClampedScore(avgHundredths) ==
    IF avgHundredths <= 0 THEN 0
    ELSE IF avgHundredths >= 400 THEN 10000
    ELSE 25 * avgHundredths

\* C3: getVulnerabilityScore returns a value in [0, 10], equal to
\* clamp(avgPointsAllowed * 2.5, 0, 10) for the listed average of the team,
\* and for a fixed position a team with a greater average points allowed
\* never scores lower (negative averages score 0, averages above 4 score 10).
C3_ScoreClampedAndMonotonic ==
    /\ ret.op = "getVulnerabilityScore" => ret.val >= 0 /\ ret.val <= 10000
    /\ pc = "recommend" =>
         \A p \in Positions :
            LET list == defenseResults[positionMapping[p]]
                cell(t) == teamDefenseStats[p][t]
            IN /\ \A t \in Played(p) : \A i \in 1..Len(list) :
                     list[i].name = AllTeamNames[t] =>
                        VulnerabilityScore(t, p)
                            = ClampedScore(list[i].avgPointsAllowedPerGame)
               /\ \A a \in Played(p) : \A b \in Played(p) :
                     cell(a).pointsAllowed * cell(b).games
                         > cell(b).pointsAllowed * cell(a).games
                     => VulnerabilityScore(a, p) >= VulnerabilityScore(b, p)

\* a score of 10 returned for a team whose average is above 4, while another
\* team of the position has a negative average and a third value lies between
C3_Witness ==
    /\ ret.op = "getVulnerabilityScore"
    /\ ret.val = 10000
    /\ ret.arg[1] \in Played(ret.arg[2])
    /\ LET c == teamDefenseStats[ret.arg[2]][ret.arg[1]]
       IN c.pointsAllowed > 4 * c.games
    /\ \E b \in Played(ret.arg[2]) : teamDefenseStats[ret.arg[2]][b].pointsAllowed < 0

\* C4: getVulnerabilityScore(teamId, position) returns 0 when the cell is
\* absent or has no games, and otherwise the score of the cell of that very
\* team: the clamp of 2.5 times its own average rounded to two decimals.
C4_LookupResolvesOwnCell ==
    ret.op = "getVulnerabilityScore" =>
        LET t == ret.arg[1]
            p == ret.arg[2]
        IN IF t \notin TeamIds \/ teamDefenseStats[p][t].games = 0
           THEN ret.val = 0
           ELSE \E h \in -200..1200 :
                   /\ 2 * Abs(h * teamDefenseStats[p][t].games
                                - 100 * teamDefenseStats[p][t].pointsAllowed)
                         <= teamDefenseStats[p][t].games
                   /\ ret.val = ClampedScore(h)

\* the score of a team that is listed, but not first, in its position
C4_Witness ==
    /\ ret.op = "getVulnerabilityScore"
    /\ ret.arg[1] \in Played(ret.arg[2])
    /\ ret.val > 0 /\ ret.val < 10000
    /\ LET list == defenseResults[positionMapping[ret.arg[2]]]
       IN list[1].name # AllTeamNames[ret.arg[1]]
            /\ list[1].avgPointsAllowedPerGame
                  # ToFixed2Quot(teamDefenseStats[ret.arg[2]][ret.arg[1]].pointsAllowed,
                                 teamDefenseStats[ret.arg[2]][ret.arg[1]].games)

\* the fixtures that are neither started nor finished, and those of them that
\* are scheduled
Upcoming == {i \in 1..Len(fixtures) : ~fixtures[i].started /\ ~fixtures[i].finished}

Scheduled ==
    {i \in Upcoming : fixtures[i].event # Null /\ fixtures[i].kickoff_time # Null}

\* the gameweeks of the upcoming fixtures with the earliest kickoff time
EarliestGameweeks ==
    {fixtures[i].event : i \in {k \in Scheduled :
        \A j \in Scheduled : fixtures[k].kickoff_time <= fixtures[j].kickoff_time}}

\* the gameweeks observed in the fixture list
ObservedGameweeks ==
    {fixtures[i].event : i \in {k \in 1..Len(fixtures) : fixtures[k].event # Null}}

\* C5 (as stated; violated): when the list has a fixture that is not started
\* and not finished, some fixtures being unscheduled, getCurrentGameweek
\* returns the gameweek of the not-started, not-finished fixture with the
\* earliest kickoff time, an integer gameweek number.  Stated for the lists
\* in which such a fixture has a kickoff time and a gameweek.
C5_ReturnsEarliestUpcomingGameweek ==
    (ret.op = "getCurrentGameweek" /\ Scheduled # {}) =>
        /\ ret.val \in 1..38
        /\ ret.val \in EarliestGameweeks

\* C6 (as stated; violated): when no fixture is both not started and not
\* finished, or the list is empty, getCurrentGameweek returns
\* min(38, maxObservedGameweek + 1), always an existing gameweek 1..38.
C6_FallbackIsClampedGameweek ==
    (ret.op = "getCurrentGameweek" /\ Upcoming = {}) =>
        /\ ret.val \in 1..38
        /\ ObservedGameweeks # {} =>
              ret.val = Min2(38, 1 + MathMax(ObservedGameweeks))

\* the current gameweek as the recommender resolves it: the gameweek of the
\* earliest upcoming fixture, else the clamped fallback; empty when the
\* fixture list determines neither
ResolvedGameweeks ==
    IF Scheduled # {} THEN EarliestGameweeks
    ELSE IF Upcoming = {} /\ ObservedGameweeks # {}
         THEN {Min2(38, 1 + MathMax(ObservedGameweeks))}
         ELSE {}

\* the fixtures that qualify for a team over n gameweeks from current
Qualifying(current, team, n) ==
    {i \in 1..Len(fixtures) :
        /\ fixtures[i].event # Null
        /\ fixtures[i].event \in current..(current + n - 1)
        /\ (fixtures[i].team_h = team \/ fixtures[i].team_a = team)
        /\ ~fixtures[i].finished}

\* the score of a team against a position, from its cell of the table
CellScore(t, p) ==
    IF t \notin TeamIds \/ teamDefenseStats[p][t].games = 0 THEN 0
    ELSE ClampedScore(ToFixed2Quot(teamDefenseStats[p][t].pointsAllowed,
                                   teamDefenseStats[p][t].games))

\* entry describes fixture from the side of player
Describes(entry, fixture, player) ==
    LET home == fixture.team_h = player.team
        other == IF home THEN fixture.team_a ELSE fixture.team_h
    IN /\ entry.gameweek = fixture.event
       /\ entry.isHome = home
       /\ entry.opponentId = other
       /\ other \in TeamIds => entry.opponent = AllTeamNames[other]
       /\ entry.difficulty = (IF home THEN fixture.team_h_difficulty
                              ELSE fixture.team_a_difficulty)
       /\ entry.vulnerabilityScore = CellScore(other, player.element_type)

\* the players of allPlayersData with the given id
PlayersWithId(id) == {i \in 1..Len(allPlayersData) : allPlayersData[i].id = id}

\* entries pairs off one to one with the fixtures in qualifying
PairsOff(entries, qualifying, player) ==
    \E f \in [1..Len(entries) -> qualifying] :
        /\ \A j, k \in 1..Len(entries) : f[j] = f[k] => j = k
        /\ \A i \in qualifying : \E k \in 1..Len(entries) : f[k] = i
        /\ \A k \in 1..Len(entries) : Describes(entries[k], fixtures[f[k]], player)

\* C7 (as stated; violated through C5): for a known player and a horizon
\* n >= 1, getPlayerUpcomingFixtures returns exactly one entry for each
\* fixture whose gameweek is in {current, ..., current + n - 1}, that has the
\* player's team on either side and is not finished, and no other entry;
\* each entry names the other side as opponent, the difficulty of the
\* player's side, and the score of the opponent against the player's
\* position.
C7_OneEntryPerQualifyingFixture ==
    (/\ ret.op = "getPlayerUpcomingFixtures"
     /\ PlayersWithId(ret.arg[1]) # {}
     /\ ResolvedGameweeks # {}) =>
        \E current \in ResolvedGameweeks :
            LET player == allPlayersData[CHOOSE i \in PlayersWithId(ret.arg[1]) : TRUE]
            IN PairsOff(ret.val, Qualifying(current, player.team, ret.arg[2]), player)

\* getCurrentGameweek returns the current gameweek
GameweekResolved == CurrentGameweek \in ResolvedGameweeks

\* on fixture lists for which getCurrentGameweek returns the current
\* gameweek, getPlayerUpcomingFixtures returns the entries of C7
UpcomingFixturesOfResolvedGameweek == GameweekResolved => C7_OneEntryPerQualifyingFixture

\* the places at which a player is listed under a position title
Listed(title, id) == {k \in 1..Len(positions[title]) : positions[title][k].id = id}

\* C8 (as stated; violated through C5): after analyzeTimeHorizon a player is
\* listed if and only if status is available, minutes exceed 200 and at
\* least one fixture qualifies in the horizon; a listed player appears
\* exactly once, under the own position only, and no listed entry has zero
\* fixtures.
C8_ListedIffEligibleWithFixtures ==
    (ret.op = "analyzeTimeHorizon" /\ ResolvedGameweeks # {}) =>
        \E current \in ResolvedGameweeks :
            /\ \A i \in 1..Len(allPlayersData) :
                 LET player == allPlayersData[i]
                     own == PositionTitles[player.element_type]
                 IN IF /\ player.status = "a"
                       /\ player.minutes > 200
                       /\ Qualifying(current, player.team, ret.arg) # {}
                    THEN /\ Cardinality(Listed(own, player.id)) = 1
                         /\ \A p \in Positions :
                               PositionTitles[p] # own => Listed(PositionTitles[p], player.id) = {}
                    ELSE \A p \in Positions : Listed(PositionTitles[p], player.id) = {}
            /\ \A p \in Positions : \A k \in 1..Len(positions[PositionTitles[p]]) :
                 positions[PositionTitles[p]][k].fixturesCount > 0

\* on fixture lists for which getCurrentGameweek returns the current
\* gameweek, analyzeTimeHorizon lists the players of C8
ListedOfResolvedGameweek == GameweekResolved => C8_ListedIffEligibleWithFixtures

\* the ranked list of position p
Ranked(p) == positions[PositionTitles[p]]

\* the place of a listed entry's player in allPlayersData
InputPlace(entry) == CHOOSE i \in PlayersWithId(entry.id) : TRUE

\* C9 (as stated; violated): over the players of a ranked list the comparator
\* of analyzeTimeHorizon is antisymmetric in sign and transitive (A before
\* B and B before C give A before C), and pairs equal on total and form keep
\* their input order.
C9_ComparatorIsTotalPreorder ==
    ret.op = "analyzeTimeHorizon" =>
        \A p \in Positions : \A i, j \in 1..Len(Ranked(p)) :
            /\ Compare(Ranked(p)[i], Ranked(p)[j]) = -Compare(Ranked(p)[j], Ranked(p)[i])
            /\ \A k \in 1..Len(Ranked(p)) :
                  (/\ Compare(Ranked(p)[i], Ranked(p)[j]) < 0
                   /\ Compare(Ranked(p)[j], Ranked(p)[k]) < 0)
                  => Compare(Ranked(p)[i], Ranked(p)[k]) < 0
            /\ (/\ i < j
                /\ Ranked(p)[i].totalVulnerabilityScore = Ranked(p)[j].totalVulnerabilityScore
                /\ Ranked(p)[i].form = Ranked(p)[j].form)
               => InputPlace(Ranked(p)[i]) < InputPlace(Ranked(p)[j])

\* three listed players that the comparator ranks in a cycle
RankedInCycle ==
    /\ ret.op = "analyzeTimeHorizon"
    /\ \E p \in Positions : \E i, j, k \in 1..Len(Ranked(p)) :
          /\ Compare(Ranked(p)[i], Ranked(p)[j]) < 0
          /\ Compare(Ranked(p)[j], Ranked(p)[k]) < 0
          /\ Compare(Ranked(p)[k], Ranked(p)[i]) < 0

\* A is due before B: A's total exceeds B's by more than 0.5, or the totals
\* differ by at most 0.5 and A's form is greater
DueBefore(A, B) ==
    \/ A.totalVulnerabilityScore - B.totalVulnerabilityScore > 50
    \/ /\ Abs(A.totalVulnerabilityScore - B.totalVulnerabilityScore) <= 50
       /\ A.form > B.form

\* C10 (as stated; violated through C9): in every ranked list, a player
\* whose total exceeds another's by more than 0.5 is ranked before the
\* other, and of two players whose totals differ by at most 0.5 the one of
\* greater form is ranked before the other.
C10_RankedByTotalThenForm ==
    ret.op = "analyzeTimeHorizon" =>
        \A p \in Positions : \A i, j \in 1..Len(Ranked(p)) :
            DueBefore(Ranked(p)[i], Ranked(p)[j]) => i < j

\* a list on which the comparator is consistent is ranked as C10 states
RankedWhenConsistent ==
    (\A p \in Positions : ConsistentComparator(Ranked(p))) => C10_RankedByTotalThenForm

\* whatever order the sort leaves, a cycle leaves a pair ranked against C10
CycleBreaksRanking == RankedInCycle => ~C10_RankedByTotalThenForm

\* the played records of history h against team t, and their points
RECURSIVE GamesIn(_, _)
GamesIn(h, t) ==
    IF h = <<>> THEN 0
    ELSE (IF Head(h).minutes > 0 /\ Head(h).opponent_team = t THEN 1 ELSE 0)
            + GamesIn(Tail(h), t)

RECURSIVE PointsIn(_, _)
PointsIn(h, t) ==
    IF h = <<>> THEN 0
    ELSE (IF Head(h).minutes > 0 /\ Head(h).opponent_team = t
          THEN Head(h).total_points ELSE 0)
            + PointsIn(Tail(h), t)

\* the same, summed over the players at the places K that play position p
RECURSIVE GamesOf(_, _, _)
GamesOf(K, p, t) ==
    IF K = {} THEN 0
    ELSE LET k == CHOOSE x \in K : TRUE
         IN (IF allPlayersData[k].element_type = p
             THEN GamesIn(run.responses[k].history, t) ELSE 0)
               + GamesOf(K \ {k}, p, t)

RECURSIVE PointsOf(_, _, _)
PointsOf(K, p, t) ==
    IF K = {} THEN 0
    ELSE LET k == CHOOSE x \in K : TRUE
         IN (IF allPlayersData[k].element_type = p
             THEN PointsIn(run.responses[k].history, t) ELSE 0)
               + PointsOf(K \ {k}, p, t)

\* the players whose fetch has succeeded, and those whose fetch has failed
Succeeded ==
    {k \in DOMAIN run.status :
        run.status[k] = "settled" /\ run.responses[k].outcome = "resolved"}

Failed ==
    {k \in DOMAIN run.status :
        run.status[k] = "settled" /\ run.responses[k].outcome = "rejected"}

\* C11: whatever subset of the history fetches fails, analyzeTeamDefense
\* never raises; a failed player changes no cell, every cell holds the
\* aggregation over exactly the players whose fetch succeeded, and the run
\* returns the results of that table once every player has settled.
C11_FailedFetchesAreSkipped ==
    /\ pc # "aborted"
    /\ \A p \in Positions : \A t \in TeamIds :
          /\ teamDefenseStats[p][t].games = GamesOf(Succeeded, p, t)
          /\ teamDefenseStats[p][t].pointsAllowed = PointsOf(Succeeded, p, t)
    /\ pc = "done" =>
          /\ ret = [op |-> "analyzeTeamDefense", arg |-> Null, val |-> "resolved"]
          /\ Succeeded \cup Failed = DOMAIN allPlayersData
          /\ defenseResults = CalcResults(teamDefenseStats)

\* a finished run in which one fetch failed in the first batch and a fetch
\* that succeeded later brought a played record
C11_Witness ==
    /\ pc = "done"
    /\ 1 \in Failed
    /\ \E k \in Succeeded : k > 1 /\ GamesIn(run.responses[k].history, 1) > 0

\* C12 (as stated; violated): when the bootstrap fetch or the fixtures fetch
\* of a top-level function fails, with a network error or an HTTP error
\* status, the function produces no analysis results and the failure reaches
\* its caller as an error.
C12_FetchFailurePropagates ==
    (/\ ret.op \in {"runAnalysis", "runTeamDefenseAnalysis", "runCompleteAnalysis"}
     /\ \E i \in 1..Len(ret.arg) : ret.arg[i] # "ok") =>
        /\ ret.val = "rejected"
        /\ ~ret.results

\* the functions that throw the error on do propagate a failed bootstrap
\* fetch, and no function produces results after a network error
TopLevelRethrows ==
    /\ (ret.op \in {"runTeamDefenseAnalysis", "runCompleteAnalysis"} /\ ret.arg[1] # "ok")
          => (ret.val = "rejected" /\ ~ret.results)
    /\ (ret.op # "init" /\ \E i \in 1..Len(ret.arg) : ret.arg[i] = "network")
          => ~ret.results

\* C13 (as stated; violated): every average the analyzers compute is a
\* defined number; with a zero denominator the result is 0 or the entry is
\* skipped.  Stated for the per-team average of analyzeTeamPerformance.
C13_AveragesAreDefined ==
    ret.op = "analyzeTeamPerformance" =>
        \A i \in 1..Len(ret.val) :
            /\ ret.val[i].averagePoints # NaN
            /\ ret.val[i].playerCount = 0 => ret.val[i].averagePoints = 0

\* the average of every team that has a player is within half a tenth of
\* totalPoints / playerCount
TeamAveragesOfPlayers ==
    ret.op = "analyzeTeamPerformance" =>
        \A i \in 1..Len(ret.val) :
            ret.val[i].playerCount > 0 =>
                2 * Abs(ret.val[i].averagePoints * ret.val[i].playerCount
                          - 10 * ret.val[i].totalPoints) <= ret.val[i].playerCount

\* C14 (as stated; violated): getDetailedPlayerStats of an id that is not in
\* the snapshot fails with the not-found condition whether the history fetch
\* succeeds or fails, and returns no result; for an id of the snapshot whose
\* fetch succeeds it returns a result.
C14_UnknownPlayerIsNotFound ==
    ret.op = "getDetailedPlayerStats" =>
        IF PlayersWithId(ret.arg[1]) = {}
        THEN ret.val.status = "rejected" /\ ret.val.error = "not found"
        ELSE ret.arg[2] = "resolved" => ret.val.status = "resolved"

\* an unknown id never gets a result, and a known id gets one exactly when
\* the fetch succeeds
DetailedStatsOutcome ==
    ret.op = "getDetailedPlayerStats" =>
        (ret.val.status = "resolved"
            <=> (PlayersWithId(ret.arg[1]) # {} /\ ret.arg[2] = "resolved"))

\* C15 (as stated; violated): a second analyzeTeamDefense on the same
\* analyzer, with the same player histories, returns the same results as the
\* first; nothing of the first run carries over.
C15_SecondRunReturnsSameResults ==
    Len(run.returned) = 2 => run.returned[2] = run.returned[1]

\* what the second run does return: every cell holds twice the aggregation
\* over the players whose fetch succeeded
SecondRunAccumulates ==
    (pc = "done" /\ Len(run.returned) = 2) =>
        \A p \in Positions : \A t \in TeamIds :
            /\ teamDefenseStats[p][t].games = 2 * GamesOf(Succeeded, p, t)
            /\ teamDefenseStats[p][t].pointsAllowed = 2 * PointsOf(Succeeded, p, t)

\* C16 (as stated; violated): no call of the analyses changes allPlayersData:
\* the same records in the same order.
C16_SnapshotUnchanged == [][allPlayersData' = allPlayersData]_vars

\* every analysis but getTopScorers leaves allPlayersData as it was
OnlyTopScorersReorders ==
    [][ret'.op # "getTopScorers" => allPlayersData' = allPlayersData]_vars

\* the table that results when the histories of the players whose fetch has
\* succeeded are applied one after the other in snapshot order, up to place k
RECURSIVE SequentialTable(_)
SequentialTable(k) ==
    IF k = 0 THEN ZeroStats
    ELSE LET before == SequentialTable(k - 1)
         IN IF k \in Succeeded
            THEN ApplyHistory(before, allPlayersData[k].element_type,
                              run.responses[k].history)
            ELSE before

\* C17: in whatever order the fetches complete, the table is the one that
\* applying the completed histories in snapshot order gives, in every cell;
\* at the end of the run this is the table of all fetched histories.
C17_TableIndependentOfCompletionOrder ==
    /\ teamDefenseStats = SequentialTable(Len(allPlayersData))
    /\ pc = "done" =>
          /\ Succeeded \cup Failed = DOMAIN allPlayersData
          /\ run.returned[Len(run.returned)]
                = CalcResults(SequentialTable(Len(allPlayersData)))

\* the fetch of the second player has completed while that of the first is
\* still in flight, and both histories count a game in the same cell
C17_Witness ==
    /\ pc = "batch"
    /\ run.status[1] = "inflight"
    /\ 2 \in Succeeded
    /\ allPlayersData[1].element_type = allPlayersData[2].element_type
    /\ GamesIn(run.responses[1].history, 1) > 0
    /\ GamesIn(run.responses[2].history, 1) > 0
    /\ PointsIn(run.responses[1].history, 1) # PointsIn(run.responses[2].history, 1)

\* the least n with 90 * n >= minutes
AppearancesOf(minutes) ==
    CHOOSE n \in 0..minutes : 90 * n >= minutes /\ (n = 0 \/ 90 * (n - 1) < minutes)

\* the predicate of the specification: minutes >= 450, average minutes per
\* appearance >= 60, and form # 0 or minutes >= 1800
RegularStarter(player) ==
    LET appearances == Max2(1, AppearancesOf(player.minutes))
    IN /\ player.minutes >= 450
       /\ player.minutes >= 60 * appearances
       /\ (player.form # 0 \/ player.minutes >= 1800)

\* the player of the snapshot that an entry of a result describes
EntryPlayer(entry) ==
    CHOOSE k \in 1..Len(allPlayersData) : allPlayersData[k].web_name = entry.webName

\* C18: isRegularStarter returns true exactly for the players of the
\* predicate; getBestValuePlayers and getBestFormPlayers return only regular
\* starters with more than 20 points (and a cost above 4.0 for value picks),
\* each player once, at most limit of them, in descending order of
\* pointsPerMillion and of form.
C18_StartersFilteredLimitedSorted ==
    /\ ret.op = "isRegularStarter" => (ret.val <=> RegularStarter(ret.arg))
    /\ ret.op \in {"getBestValuePlayers", "getBestFormPlayers"} =>
          /\ Len(ret.val) <= ret.arg
          /\ \A i \in 1..Len(ret.val) :
                /\ \E k \in 1..Len(allPlayersData) :
                      allPlayersData[k].web_name = ret.val[i].webName
                /\ RegularStarter(allPlayersData[EntryPlayer(ret.val[i])])
                /\ allPlayersData[EntryPlayer(ret.val[i])].total_points > 20
                /\ ret.val[i].totalPoints
                      = allPlayersData[EntryPlayer(ret.val[i])].total_points
                /\ ret.op = "getBestValuePlayers" =>
                      allPlayersData[EntryPlayer(ret.val[i])].now_cost > 40
                /\ \A j \in 1..Len(ret.val) :
                      ret.val[j].webName = ret.val[i].webName => j = i
          /\ \A i \in 1..(Len(ret.val) - 1) :
                IF ret.op = "getBestValuePlayers"
                THEN ret.val[i].pointsPerMillion >= ret.val[i + 1].pointsPerMillion
                ELSE ret.val[i].form >= ret.val[i + 1].form

\* value picks of two players in which the second player of the snapshot,
\* with the better pointsPerMillion, comes first
C18_Witness ==
    /\ ret.op = "getBestValuePlayers"
    /\ Len(ret.val) = 2
    /\ ret.val[1].webName = allPlayersData[2].web_name
    /\ ret.val[1].pointsPerMillion > ret.val[2].pointsPerMillion
    /\ \E k \in 1..Len(allPlayersData) : allPlayersData[k].minutes = 450

\* C19: within each position the list of calculateResults is in descending
\* order of totalPointsAllowed: of two adjacent teams the earlier has at
\* least the total of the later.
C19_RankedByTotalDescending ==
    ret.op = "calculateResults" =>
        \A n \in PositionNames :
            \A i \in 1..(Len(defenseResults[n]) - 1) :
                defenseResults[n][i].totalPointsAllowed
                    >= defenseResults[n][i + 1].totalPointsAllowed

\* a list in which a team with the higher total and the lower average comes
\* before one with the lower total and the higher average
C19_Witness ==
    /\ ret.op = "calculateResults"
    /\ \E n \in PositionNames : \E i \in 1..(Len(defenseResults[n]) - 1) :
          /\ defenseResults[n][i].totalPointsAllowed
                > defenseResults[n][i + 1].totalPointsAllowed
          /\ defenseResults[n][i].avgPointsAllowedPerGame
                < defenseResults[n][i + 1].avgPointsAllowedPerGame

\* the fetches in flight, and the batch of the player at place k
InFlight == {k \in DOMAIN run.status : run.status[k] = "inflight"}

BatchOf(k) == (k - 1) \div batchSize

\* a player whose fetch has been started: in flight or settled
Started(k) == run.status[k] \in {"inflight", "settled", "rejected"}

\* C20: at every moment at most batchSize fetches are in flight, and no
\* fetch of a player of a later batch is started before every player of the
\* earlier batches has settled.
C20_FetchesCappedAndBatched ==
    /\ Cardinality(InFlight) <= batchSize
    /\ \A j \in DOMAIN run.status : \A k \in DOMAIN run.status :
          (BatchOf(j) < BatchOf(k) /\ run.status[k] # "none") =>
              run.status[j] = "settled"

\* a fetch of the second batch is in flight after the first batch, in which
\* a fetch failed, has settled
C20_Witness ==
    /\ \E k \in InFlight : BatchOf(k) = 1
    /\ \E j \in Failed : BatchOf(j) = 0
    /\ \A j \in DOMAIN run.status : BatchOf(j) = 0 => run.status[j] = "settled"

\* the players whose promise has settled
SettledPlayers == {k \in DOMAIN run.status : run.status[k] \in {"settled", "rejected"}}

\* one step of the run processes at most one player, a player whose fetch
\* was in flight, counts it once, and never processes a settled player again
ProcessedOnce ==
    /\ SettledPlayers \subseteq SettledPlayers'
    /\ Cardinality(SettledPlayers') <= Cardinality(SettledPlayers) + 1
    /\ \A k \in SettledPlayers' \ SettledPlayers : run.status[k] = "inflight"
    /\ \A k \in DOMAIN run.status :
          (run.status[k] = "inflight" /\ run'.status[k] # "inflight") =>
              k \in SettledPlayers'

\* C21: when every fetch eventually settles, a run of analyzeTeamDefense
\* that has started eventually finishes; every player is processed exactly
\* once, the counter of processed players is the number of settled players
\* and equals the number of players when the run finishes, and the results
\* are computed from the table only once every player has settled.
C21_RunTerminatesAllProcessedOnce ==
    /\ (ret.op = "analyzeTeamDefense") ~> (pc = "done")
    /\ [](run.processedPlayers = Cardinality(SettledPlayers))
    /\ [](pc = "done" =>
            /\ run.processedPlayers = Len(allPlayersData)
            /\ \A k \in 1..Len(allPlayersData) : run.status[k] = "settled"
            /\ defenseResults = CalcResults(teamDefenseStats))
    /\ [][ProcessedOnce]_vars
    /\ [][defenseResults' # defenseResults =>
            \A k \in 1..Len(allPlayersData) : run.status[k] = "settled"]_vars

\* a finished run over two batches in which the only player of the last
\* batch failed and a result was computed from the earlier players
C21_Witness ==
    /\ pc = "done"
    /\ run.processedPlayers = Len(allPlayersData)
    /\ Len(allPlayersData) > batchSize
    /\ Len(allPlayersData) \in Failed
    /\ \E n \in PositionNames : defenseResults[n] # <<>>
====
